---- MODULE Spec2Model ----
(***************************************************************************)
(* ServerMetricsListener of internal/dnsserver/prometheus/server.go: the   *)
(* five lifecycle hooks and the counters and histograms they update.       *)
(*                                                                         *)
(* A counter vector is a function from the label vectors used so far to    *)
(* their counts (children are created on first use).  A histogram vector   *)
(* is a function from label vectors to [count, sum, buckets].  Durations   *)
(* are kept in whole milliseconds.  An optional value (a context field, a  *)
(* *dns.Msg that may be nil) is a set with no element or one element.      *)
(***************************************************************************)
EXTENDS Integers, Sequences, FiniteSets, TLC

VARIABLES
    requestTotal,       \* CounterVec   {name, proto, network, addr, type, family}
    requestDuration,    \* HistogramVec {name, proto, addr}
    requestSize,        \* HistogramVec {name, proto, addr}
    responseSize,       \* HistogramVec {name, proto, addr}
    responseRCode,      \* CounterVec   {name, proto, addr, rcode}
    errorTotal,         \* CounterVec   {name, proto, addr}
    panicTotal,         \* CounterVec   {name, proto, addr}
    invalidMsgTotal,    \* CounterVec   {name, proto, addr}
    quicAddrValidationCacheLookups, \* CounterVec {hit}, children "1" and "0" pre-bound
    lastCall,           \* the hook call made last: its arguments and how it ended
    nCalls,             \* hook calls made so far
    nPanicked,          \* hook calls so far that aborted
    quicCalls,          \* OnQUICAddressValidation calls so far, by argument
    rcodeLabels,        \* per response code, the rcode labels OnRequest has used
    pc,                 \* concurrent callers: the line each caller is at
    call                \* concurrent callers: arguments and locals of each call

metrics == <<requestTotal, requestDuration, requestSize, responseSize,
             responseRCode, errorTotal, panicTotal, invalidMsgTotal,
             quicAddrValidationCacheLookups>>

history == <<lastCall, nCalls, nPanicked, quicCalls, rcodeLabels>>

callers == <<pc, call>>

vars == <<metrics, history, callers>>

-----------------------------------------------------------------------------
(* Bounds and inputs *)

MaxCalls == 2

NumCallers == 2

ServerInfos ==
    { [Name |-> "default_dns", Proto |-> "dns", Addr |-> "127.0.0.1:53"],
      [Name |-> "default_dot", Proto |-> "tls", Addr |-> "127.0.0.1:853"] }

StartTimes == {0}

Nows == {7}

RequestInfos == { [RequestSize |-> 64, ResponseSize |-> 128] }

Contexts ==
    [ serverInfo  : {{}} \cup {{s} : s \in ServerInfos},
      startTime   : {{}} \cup {{t} : t \in StartTimes},
      requestInfo : {{}} \cup {{ri} : ri \in RequestInfos} ]

Reqs == { [Qtype |-> "A"], [Qtype |-> "AAAA"] }

RWs == { [Network |-> "udp", Family |-> "1"] }

RCodes == {0, 3, 12}

Resps == {{}} \cup {{[Rcode |-> c]} : c \in RCodes}

ErrValues == {"i/o timeout", "short read"}

-----------------------------------------------------------------------------
(* Metric vectors *)

EmptyVec == [l \in {} |-> 0]

Get(vec, lbl) == IF lbl \in DOMAIN vec THEN vec[lbl] ELSE 0

\* Variant: the child of a label vector is made anew on every use.
IncFresh(vec, lbl) == (lbl :> 1) @@ vec

Inc(vec, lbl) ==
    IF lbl \in DOMAIN vec THEN [vec EXCEPT ![lbl] = @ + 1]
                          ELSE vec @@ (lbl :> 1)

DefBuckets == <<5, 10, 25, 50, 100, 250, 500, 1000, 2500, 5000, 10000>>

SizeBuckets == <<0, 50, 100, 200, 300, 511, 1023, 4095, 8291>>

BucketOf(v, bounds) ==
    IF \E i \in 1..Len(bounds) : v <= bounds[i]
    THEN CHOOSE i \in 1..Len(bounds) :
            /\ v <= bounds[i]
            /\ \A j \in 1..(i - 1) : v > bounds[j]
    ELSE Len(bounds) + 1

NewHistogram(bounds) ==
    [count |-> 0, sum |-> 0, buckets |-> [i \in 1..(Len(bounds) + 1) |-> 0]]

HistObserve(h, v, bounds) ==
    [count   |-> h.count + 1,
     sum     |-> h.sum + v,
     buckets |-> [h.buckets EXCEPT ![BucketOf(v, bounds)] = @ + 1]]

Observe(vec, lbl, v, bounds) ==
    IF lbl \in DOMAIN vec
    THEN [vec EXCEPT ![lbl] = HistObserve(@, v, bounds)]
    ELSE vec @@ (lbl :> HistObserve(NewHistogram(bounds), v, bounds))

ObsCount(vec, lbl) == IF lbl \in DOMAIN vec THEN vec[lbl].count ELSE 0

-----------------------------------------------------------------------------
(* Context lookups and label derivation *)

HasServerInfo(ctx) == ctx.serverInfo # {}

HasStartTime(ctx) == ctx.startTime # {}

HasRequestInfo(ctx) == ctx.requestInfo # {}

MustServerInfoFromContext(ctx) == CHOOSE s \in ctx.serverInfo : TRUE

MustStartTimeFromContext(ctx) == CHOOSE t \in ctx.startTime : TRUE

MustRequestInfoFromContext(ctx) == CHOOSE ri \in ctx.requestInfo : TRUE

ServerLabels(serverInfo) ==
    <<serverInfo.Name, serverInfo.Proto, serverInfo.Addr>>

ServerLabelsPlusRCode(serverInfo, rCode) ==
    <<serverInfo.Name, serverInfo.Proto, serverInfo.Addr, rCode>>

RequestLabels(serverInfo, req, rw) ==
    <<serverInfo.Name, serverInfo.Proto, rw.Network, serverInfo.Addr,
      req.Qtype, rw.Family>>

RcodeToString ==
    (0 :> "NOERROR") @@ (1 :> "FORMERR") @@ (2 :> "SERVFAIL") @@
    (3 :> "NXDOMAIN") @@ (4 :> "NOTIMP") @@ (5 :> "REFUSED") @@
    (6 :> "YXDOMAIN") @@ (7 :> "YXRRSET") @@ (8 :> "NXRRSET") @@
    (9 :> "NOTAUTH") @@ (10 :> "NOTZONE") @@ (16 :> "BADSIG") @@
    (17 :> "BADKEY") @@ (18 :> "BADTIME") @@ (19 :> "BADMODE") @@
    (20 :> "BADNAME") @@ (21 :> "BADALG") @@ (22 :> "BADTRUNC") @@
    (23 :> "BADCOOKIE")

Digits == <<"0", "1", "2", "3", "4", "5", "6", "7", "8", "9">>

RECURSIVE Itoa(_)
Itoa(n) == IF n < 10 THEN Digits[n + 1]
                     ELSE Itoa(n \div 10) \o Digits[(n % 10) + 1]

rCodeToString(rCode) ==
    IF rCode \in DOMAIN RcodeToString THEN RcodeToString[rCode]
                                      ELSE Itoa(rCode)

-----------------------------------------------------------------------------
(* The hooks, each run to its end by one caller *)

NoCtx == [serverInfo |-> {}, startTime |-> {}, requestInfo |-> {}]

NoCall ==
    [hook |-> "none", ctx |-> NoCtx, req |-> {}, resp |-> {}, rw |-> {},
     now |-> 0, arg |-> "", hit |-> FALSE, outcome |-> "none"]

Ended(c, outcome) ==
    /\ lastCall' = [c EXCEPT !.outcome = outcome]
    /\ nCalls' = nCalls + 1
    /\ nPanicked' = IF outcome = "panicked" THEN nPanicked + 1 ELSE nPanicked

RCodeLabelsUsed(resp) ==
    LET used == {l[4] : l \in {k \in DOMAIN responseRCode' :
                        Get(responseRCode', k) # Get(responseRCode, k)}}
    IN  rcodeLabels' =
            IF resp = {} THEN rcodeLabels
            ELSE LET c == (CHOOSE m \in resp : TRUE).Rcode
                 IN  [rcodeLabels EXCEPT ![c] = @ \cup used]

\* Variant: request_total is bound with the server-level labels only.
RequestMetricsServerLabels(serverInfo, req, rw, elapsed) ==
    /\ requestTotal' = Inc(requestTotal, ServerLabels(serverInfo))
    /\ requestDuration' =
          Observe(requestDuration, ServerLabels(serverInfo), elapsed, DefBuckets)

\* Variant: the duration is computed but never observed.
RequestMetricsNoDuration(serverInfo, req, rw, elapsed) ==
    /\ requestTotal' = Inc(requestTotal, RequestLabels(serverInfo, req, rw))
    /\ UNCHANGED requestDuration

RequestMetrics(serverInfo, req, rw, elapsed) ==
    /\ requestTotal' = Inc(requestTotal, RequestLabels(serverInfo, req, rw))
    /\ requestDuration' =
          Observe(requestDuration, ServerLabels(serverInfo), elapsed, DefBuckets)

RequestSizeMetric(serverInfo, ri) ==
    requestSize' =
        Observe(requestSize, ServerLabels(serverInfo), ri.RequestSize, SizeBuckets)

\* Variant: the "DROPPED" increment is not under an else.
ResponseMetricsNoElse(serverInfo, ri, resp) ==
    LET dropped == ServerLabelsPlusRCode(serverInfo, "DROPPED")
    IN  IF resp # {}
        THEN LET rCode == rCodeToString((CHOOSE m \in resp : TRUE).Rcode)
             IN  /\ responseSize' =
                       Observe(responseSize, ServerLabels(serverInfo),
                               ri.ResponseSize, SizeBuckets)
                 /\ responseRCode' =
                       Inc(Inc(responseRCode,
                               ServerLabelsPlusRCode(serverInfo, rCode)), dropped)
        ELSE /\ responseRCode' = Inc(responseRCode, dropped)
             /\ UNCHANGED responseSize

\* Variant: the response size is observed before the nil check.
ResponseMetricsSizeAlways(serverInfo, ri, resp) ==
    /\ responseSize' =
          Observe(responseSize, ServerLabels(serverInfo),
                  ri.ResponseSize, SizeBuckets)
    /\ responseRCode' =
          Inc(responseRCode,
              ServerLabelsPlusRCode(serverInfo,
                  IF resp # {}
                  THEN rCodeToString((CHOOSE m \in resp : TRUE).Rcode)
                  ELSE "DROPPED"))

\* Variant: a response code without a mnemonic is not counted.
ResponseMetricsKnownOnly(serverInfo, ri, resp) ==
    IF resp # {}
    THEN LET code == (CHOOSE m \in resp : TRUE).Rcode
         IN  IF code \in DOMAIN RcodeToString
             THEN /\ responseSize' =
                        Observe(responseSize, ServerLabels(serverInfo),
                                ri.ResponseSize, SizeBuckets)
                  /\ responseRCode' =
                        Inc(responseRCode,
                            ServerLabelsPlusRCode(serverInfo, RcodeToString[code]))
             ELSE UNCHANGED <<responseSize, responseRCode>>
    ELSE /\ responseRCode' =
               Inc(responseRCode, ServerLabelsPlusRCode(serverInfo, "DROPPED"))
         /\ UNCHANGED responseSize

ResponseMetrics(serverInfo, ri, resp) ==
    IF resp # {}
    THEN LET rCode == rCodeToString((CHOOSE m \in resp : TRUE).Rcode)
         IN  /\ responseSize' =
                   Observe(responseSize, ServerLabels(serverInfo),
                           ri.ResponseSize, SizeBuckets)
             /\ responseRCode' =
                   Inc(responseRCode, ServerLabelsPlusRCode(serverInfo, rCode))
    ELSE /\ responseRCode' =
               Inc(responseRCode, ServerLabelsPlusRCode(serverInfo, "DROPPED"))
         /\ UNCHANGED responseSize

OnRequest(ctx, req, resp, rw, now) ==
    LET c == [NoCall EXCEPT !.hook = "OnRequest", !.ctx = ctx, !.req = {req},
                            !.resp = resp, !.rw = {rw}, !.now = now]
    IN  /\ nCalls < MaxCalls
        /\ UNCHANGED <<errorTotal, panicTotal, invalidMsgTotal,
                       quicAddrValidationCacheLookups, quicCalls, callers>>
        /\ IF ~HasServerInfo(ctx) \/ ~HasStartTime(ctx)
           THEN /\ UNCHANGED <<requestTotal, requestDuration, requestSize,
                               responseSize, responseRCode, rcodeLabels>>
                /\ Ended(c, "panicked")
           ELSE LET serverInfo == MustServerInfoFromContext(ctx)
                    startTime == MustStartTimeFromContext(ctx)
                    elapsed == now - startTime
                IN  /\ RequestMetrics(serverInfo, req, rw, elapsed)
                    /\ IF ~HasRequestInfo(ctx)
                       THEN /\ UNCHANGED <<requestSize, responseSize,
                                           responseRCode, rcodeLabels>>
                            /\ Ended(c, "panicked")
                       ELSE LET ri == MustRequestInfoFromContext(ctx)
                            IN  /\ RequestSizeMetric(serverInfo, ri)
                                /\ ResponseMetrics(serverInfo, ri, resp)
                                /\ RCodeLabelsUsed(resp)
                                /\ Ended(c, "returned")

IncInvalidMsgTotal(lbl) ==
    /\ invalidMsgTotal' = Inc(invalidMsgTotal, lbl)
    /\ UNCHANGED <<errorTotal, panicTotal>>

IncErrorTotal(lbl) ==
    /\ errorTotal' = Inc(errorTotal, lbl)
    /\ UNCHANGED <<invalidMsgTotal, panicTotal>>

IncPanicTotal(lbl) ==
    /\ panicTotal' = Inc(panicTotal, lbl)
    /\ UNCHANGED <<invalidMsgTotal, errorTotal>>

ServerCounterHook(hook, ctx, arg) ==
    LET c == [NoCall EXCEPT !.hook = hook, !.ctx = ctx, !.arg = arg]
    IN  /\ nCalls < MaxCalls
        /\ UNCHANGED <<requestTotal, requestDuration, requestSize, responseSize,
                       responseRCode, quicAddrValidationCacheLookups,
                       quicCalls, rcodeLabels, callers>>
        /\ IF ~HasServerInfo(ctx)
           THEN /\ UNCHANGED <<errorTotal, panicTotal, invalidMsgTotal>>
                /\ Ended(c, "panicked")
           ELSE LET lbl == ServerLabels(MustServerInfoFromContext(ctx))
                IN  /\ CASE hook = "OnInvalidMsg" -> IncInvalidMsgTotal(lbl)
                         [] hook = "OnError" -> IncErrorTotal(lbl)
                         [] hook = "OnPanic" -> IncPanicTotal(lbl)
                    /\ Ended(c, "returned")

\* Variant: without server info the hook returns without counting.
OnInvalidMsgSilent(ctx) ==
    LET c == [NoCall EXCEPT !.hook = "OnInvalidMsg", !.ctx = ctx]
    IN  /\ nCalls < MaxCalls
        /\ UNCHANGED <<requestTotal, requestDuration, requestSize, responseSize,
                       responseRCode, quicAddrValidationCacheLookups,
                       quicCalls, rcodeLabels, callers>>
        /\ IF ~HasServerInfo(ctx)
           THEN UNCHANGED <<errorTotal, panicTotal, invalidMsgTotal>>
           ELSE IncInvalidMsgTotal(ServerLabels(MustServerInfoFromContext(ctx)))
        /\ Ended(c, "returned")

\* Variant: one kind of error is left out of error_total.
OnErrorSkipTimeout(ctx, err) ==
    IF err = "i/o timeout" /\ HasServerInfo(ctx)
    THEN /\ nCalls < MaxCalls
         /\ UNCHANGED <<metrics, quicCalls, rcodeLabels, callers>>
         /\ Ended([NoCall EXCEPT !.hook = "OnError", !.ctx = ctx, !.arg = err],
                  "returned")
    ELSE ServerCounterHook("OnError", ctx, err)

OnInvalidMsg(ctx) == ServerCounterHook("OnInvalidMsg", ctx, "")

OnError(ctx, err) == ServerCounterHook("OnError", ctx, err)

OnPanic(ctx, v) == ServerCounterHook("OnPanic", ctx, v)

\* Variant: the two pre-bound counters are taken for each other.
QUICLabelSwapped(hit) == IF hit THEN "0" ELSE "1"

QUICLabel(hit) == IF hit THEN "1" ELSE "0"

OnQUICAddressValidation(hit) ==
    /\ nCalls < MaxCalls
    /\ quicAddrValidationCacheLookups' =
          [quicAddrValidationCacheLookups EXCEPT ![QUICLabel(hit)] = @ + 1]
    /\ quicCalls' = [quicCalls EXCEPT ![hit] = @ + 1]
    /\ Ended([NoCall EXCEPT !.hook = "OnQUICAddressValidation", !.hit = hit],
             "returned")
    /\ UNCHANGED <<requestTotal, requestDuration, requestSize, responseSize,
                   responseRCode, errorTotal, panicTotal, invalidMsgTotal,
                   rcodeLabels, callers>>

-----------------------------------------------------------------------------
(* Specification: hooks called one after another *)

Callers == 1..NumCallers

Init ==
    /\ requestTotal = EmptyVec
    /\ requestDuration = EmptyVec
    /\ requestSize = EmptyVec
    /\ responseSize = EmptyVec
    /\ responseRCode = EmptyVec
    /\ errorTotal = EmptyVec
    /\ panicTotal = EmptyVec
    /\ invalidMsgTotal = EmptyVec
    /\ quicAddrValidationCacheLookups = ("1" :> 0) @@ ("0" :> 0)
    /\ lastCall = NoCall
    /\ nCalls = 0
    /\ nPanicked = 0
    /\ quicCalls = [b \in BOOLEAN |-> 0]
    /\ rcodeLabels = [c \in RCodes |-> {}]
    /\ pc = [p \in Callers |-> "idle"]
    /\ call = [p \in Callers |-> NoCall]

Next ==
    \/ \E ctx \in Contexts, req \in Reqs, resp \in Resps, rw \in RWs, now \in Nows :
          OnRequest(ctx, req, resp, rw, now)
    \/ \E ctx \in Contexts : OnInvalidMsg(ctx)
    \/ \E ctx \in Contexts, err \in ErrValues : OnError(ctx, err)
    \/ \E ctx \in Contexts, v \in ErrValues : OnPanic(ctx, v)
    \/ \E hit \in BOOLEAN : OnQUICAddressValidation(hit)

Spec == Init /\ [][Next]_vars

-----------------------------------------------------------------------------
(* Specification: hooks called by NumCallers callers at once.  A caller     *)
(* takes one step per update of a metric; the context lookups and the read  *)
(* of the clock touch nothing shared and go with the update that follows.   *)

ConcContexts ==
    {NoCtx} \cup {ctx \in Contexts : ctx.serverInfo # {} /\ ctx.startTime # {}}

ConcResps == {{}, {[Rcode |-> 0]}}

ConcReq == [Qtype |-> "A"]

ConcNows == {7, 30}

ConcCalls ==
    {[NoCall EXCEPT !.hook = "OnRequest", !.ctx = ctx, !.req = {ConcReq},
                    !.resp = resp, !.rw = {rw}] :
        ctx \in ConcContexts, resp \in ConcResps, rw \in RWs}
    \cup {[NoCall EXCEPT !.hook = h, !.ctx = ctx, !.arg = "short read"] :
            h \in {"OnInvalidMsg", "OnError", "OnPanic"},
            ctx \in {x \in ConcContexts : x = NoCtx \/ x.requestInfo # {}}}
    \cup {[NoCall EXCEPT !.hook = "OnQUICAddressValidation", !.hit = hit] :
            hit \in BOOLEAN}

FirstLine(hook) ==
    CASE hook = "OnRequest" -> "L27"
      [] hook = "OnInvalidMsg" -> "L56"
      [] hook = "OnError" -> "L62"
      [] hook = "OnPanic" -> "L68"
      [] hook = "OnQUICAddressValidation" -> "L74"

Goto(p, line) ==
    /\ pc' = [pc EXCEPT ![p] = line]
    /\ UNCHANGED call

Finish(p, outcome) ==
    /\ pc' = [pc EXCEPT ![p] = outcome]
    /\ call' = [call EXCEPT ![p].outcome = outcome]

Begin(p, c) ==
    /\ pc[p] = "idle"
    /\ pc' = [pc EXCEPT ![p] = FirstLine(c.hook)]
    /\ call' = [call EXCEPT ![p] = c]
    /\ UNCHANGED <<metrics, history>>

\* lines 27-31
ReqTotal(p) ==
    /\ pc[p] = "L27"
    /\ UNCHANGED <<requestDuration, requestSize, responseSize, responseRCode,
                   errorTotal, panicTotal, invalidMsgTotal,
                   quicAddrValidationCacheLookups, history>>
    /\ IF ~HasServerInfo(call[p].ctx) \/ ~HasStartTime(call[p].ctx)
       THEN /\ UNCHANGED requestTotal
            /\ Finish(p, "panicked")
       ELSE /\ requestTotal' =
                  Inc(requestTotal,
                      RequestLabels(MustServerInfoFromContext(call[p].ctx),
                                    CHOOSE r \in call[p].req : TRUE,
                                    CHOOSE w \in call[p].rw : TRUE))
            /\ Goto(p, "L34")

\* lines 34-35
ReqDuration(p, now) ==
    /\ pc[p] = "L34"
    /\ requestDuration' =
          Observe(requestDuration,
                  ServerLabels(MustServerInfoFromContext(call[p].ctx)),
                  now - MustStartTimeFromContext(call[p].ctx), DefBuckets)
    /\ pc' = [pc EXCEPT ![p] = "L38"]
    /\ call' = [call EXCEPT ![p].now = now]
    /\ UNCHANGED <<requestTotal, requestSize, responseSize, responseRCode,
                   errorTotal, panicTotal, invalidMsgTotal,
                   quicAddrValidationCacheLookups, history>>

\* lines 38-39
ReqSize(p) ==
    /\ pc[p] = "L38"
    /\ UNCHANGED <<requestTotal, requestDuration, responseSize, responseRCode,
                   errorTotal, panicTotal, invalidMsgTotal,
                   quicAddrValidationCacheLookups, history>>
    /\ IF ~HasRequestInfo(call[p].ctx)
       THEN /\ UNCHANGED requestSize
            /\ Finish(p, "panicked")
       ELSE /\ requestSize' =
                  Observe(requestSize,
                          ServerLabels(MustServerInfoFromContext(call[p].ctx)),
                          MustRequestInfoFromContext(call[p].ctx).RequestSize,
                          SizeBuckets)
            /\ Goto(p, "L42")

\* lines 42-43 and 46-50
RespSizeOrDropped(p) ==
    /\ pc[p] = "L42"
    /\ UNCHANGED <<requestTotal, requestDuration, requestSize,
                   errorTotal, panicTotal, invalidMsgTotal,
                   quicAddrValidationCacheLookups, history>>
    /\ IF call[p].resp # {}
       THEN /\ responseSize' =
                  Observe(responseSize,
                          ServerLabels(MustServerInfoFromContext(call[p].ctx)),
                          MustRequestInfoFromContext(call[p].ctx).ResponseSize,
                          SizeBuckets)
            /\ UNCHANGED responseRCode
            /\ Goto(p, "L44")
       ELSE /\ responseRCode' =
                  Inc(responseRCode,
                      ServerLabelsPlusRCode(
                          MustServerInfoFromContext(call[p].ctx), "DROPPED"))
            /\ UNCHANGED responseSize
            /\ Finish(p, "done")

\* lines 44-45
RespRCode(p) ==
    /\ pc[p] = "L44"
    /\ responseRCode' =
          Inc(responseRCode,
              ServerLabelsPlusRCode(
                  MustServerInfoFromContext(call[p].ctx),
                  rCodeToString((CHOOSE m \in call[p].resp : TRUE).Rcode)))
    /\ Finish(p, "done")
    /\ UNCHANGED <<requestTotal, requestDuration, requestSize, responseSize,
                   errorTotal, panicTotal, invalidMsgTotal,
                   quicAddrValidationCacheLookups, history>>

\* lines 56, 62, 68
ServerCounter(p) ==
    /\ pc[p] \in {"L56", "L62", "L68"}
    /\ UNCHANGED <<requestTotal, requestDuration, requestSize, responseSize,
                   responseRCode, quicAddrValidationCacheLookups, history>>
    /\ IF ~HasServerInfo(call[p].ctx)
       THEN /\ UNCHANGED <<errorTotal, panicTotal, invalidMsgTotal>>
            /\ Finish(p, "panicked")
       ELSE LET lbl == ServerLabels(MustServerInfoFromContext(call[p].ctx))
            IN  /\ CASE pc[p] = "L56" -> IncInvalidMsgTotal(lbl)
                     [] pc[p] = "L62" -> IncErrorTotal(lbl)
                     [] pc[p] = "L68" -> IncPanicTotal(lbl)
                /\ Finish(p, "done")

\* lines 74-78
QUICLookup(p) ==
    /\ pc[p] = "L74"
    /\ quicAddrValidationCacheLookups' =
          [quicAddrValidationCacheLookups EXCEPT ![QUICLabel(call[p].hit)] = @ + 1]
    /\ Finish(p, "done")
    /\ UNCHANGED <<requestTotal, requestDuration, requestSize, responseSize,
                   responseRCode, errorTotal, panicTotal, invalidMsgTotal,
                   history>>

NextConc ==
    \/ \E p \in Callers, c \in ConcCalls : Begin(p, c)
    \/ \E p \in Callers : ReqTotal(p)
    \/ \E p \in Callers, now \in ConcNows : ReqDuration(p, now)
    \/ \E p \in Callers : ReqSize(p)
    \/ \E p \in Callers : RespSizeOrDropped(p)
    \/ \E p \in Callers : RespRCode(p)
    \/ \E p \in Callers : ServerCounter(p)
    \/ \E p \in Callers : QUICLookup(p)

SpecConc == Init /\ [][NextConc]_vars

-----------------------------------------------------------------------------
(* Vocabulary of the properties *)

RECURSIVE SumOver(_, _)
SumOver(f, S) ==
    IF S = {} THEN 0
    ELSE LET x == CHOOSE y \in S : TRUE IN f[x] + SumOver(f, S \ {x})

Total(vec) == SumOver(vec, DOMAIN vec)

TotalObs(vec) == SumOver([l \in DOMAIN vec |-> vec[l].count], DOMAIN vec)

CompleteCtx(ctx) ==
    ctx.serverInfo # {} /\ ctx.startTime # {} /\ ctx.requestInfo # {}

\* vecAfter is vecBefore with the count of lbl one higher and nothing else changed
BumpedAt(vecAfter, vecBefore, lbl) ==
    /\ DOMAIN vecAfter = DOMAIN vecBefore \cup {lbl}
    /\ \A k \in DOMAIN vecAfter :
          vecAfter[k] = Get(vecBefore, k) + (IF k = lbl THEN 1 ELSE 0)

\* histAfter is histBefore with one more observation under lbl and nothing else changed
ObservedOnceAt(histAfter, histBefore, lbl) ==
    /\ DOMAIN histAfter = DOMAIN histBefore \cup {lbl}
    /\ \A k \in DOMAIN histAfter :
          histAfter[k].count = ObsCount(histBefore, k) + (IF k = lbl THEN 1 ELSE 0)

SrvOf(c) == CHOOSE s \in c.ctx.serverInfo : TRUE

SrvLabelOf(c) == <<SrvOf(c).Name, SrvOf(c).Proto, SrvOf(c).Addr>>

RCodeLabelOf(c, rcode) ==
    <<SrvOf(c).Name, SrvOf(c).Proto, SrvOf(c).Addr, rcode>>

FullLabelOf(c) ==
    LET req == CHOOSE r \in c.req : TRUE
        rw  == CHOOSE w \in c.rw : TRUE
    IN  <<SrvOf(c).Name, SrvOf(c).Proto, rw.Network, SrvOf(c).Addr,
          req.Qtype, rw.Family>>

RcodeOf(c) == (CHOOSE m \in c.resp : TRUE).Rcode

\* this step is one call of hook
CallOf(hook) == nCalls' = nCalls + 1 /\ lastCall'.hook = hook

-----------------------------------------------------------------------------
(* Properties of the hooks called one after another *)

\* C1: an OnRequest call with a complete context and a response of code C adds
\* exactly 1 to response_rcode_total at (name, proto, addr, label of C); no
\* other label of that counter changes, "DROPPED" included.
C1_ResponseCodeCounted ==
    [][ (CallOf("OnRequest") /\ CompleteCtx(lastCall'.ctx) /\ lastCall'.resp # {})
        => LET lbl == RCodeLabelOf(lastCall', rCodeToString(RcodeOf(lastCall')))
           IN  /\ BumpedAt(responseRCode', responseRCode, lbl)
               /\ lbl[4] # "DROPPED" ]_vars

C1_Witness ==
    /\ lastCall.hook = "OnRequest"
    /\ lastCall.outcome = "returned"
    /\ lastCall.resp = {[Rcode |-> 3]}
    /\ \E s \in ServerInfos :
          /\ lastCall.ctx.serverInfo = {s}
          /\ Get(responseRCode, <<s.Name, s.Proto, s.Addr, "NXDOMAIN">>) = 2

\* C2: an OnRequest call with a complete context and a nil response adds exactly
\* 1 to response_rcode_total at "DROPPED", observes request_size_bytes once
\* and does not observe response_size_bytes.
C2_DroppedCounted ==
    [][ (CallOf("OnRequest") /\ CompleteCtx(lastCall'.ctx) /\ lastCall'.resp = {})
        => /\ BumpedAt(responseRCode', responseRCode,
                       RCodeLabelOf(lastCall', "DROPPED"))
           /\ ObservedOnceAt(requestSize', requestSize, SrvLabelOf(lastCall'))
           /\ responseSize' = responseSize ]_vars

C2_Witness ==
    /\ lastCall.hook = "OnRequest"
    /\ lastCall.outcome = "returned"
    /\ lastCall.resp = {}
    /\ Get(responseRCode, RCodeLabelOf(lastCall, "DROPPED")) = 1
    /\ ObsCount(requestSize, SrvLabelOf(lastCall)) = 2
    /\ ObsCount(responseSize, SrvLabelOf(lastCall)) = 1

RequestCounted ==
    /\ BumpedAt(requestTotal', requestTotal, FullLabelOf(lastCall'))
    /\ ObservedOnceAt(requestDuration', requestDuration, SrvLabelOf(lastCall'))
    /\ ObservedOnceAt(requestSize', requestSize, SrvLabelOf(lastCall'))

\* C3 as stated: every OnRequest call, whatever its context and its response,
\* adds exactly 1 to request_total and observes request_duration_seconds and
\* request_size_bytes once each.
C3_EveryCallCounted ==
    [][ CallOf("OnRequest")
        => /\ Total(requestTotal') = Total(requestTotal) + 1
           /\ TotalObs(requestDuration') = TotalObs(requestDuration) + 1
           /\ TotalObs(requestSize') = TotalObs(requestSize) + 1 ]_vars

\* C3 amended: every OnRequest call whose context carries server info, start
\* time and request info, with or without a response, adds exactly 1 to
\* request_total on the one vector (name, proto, network, addr, type, family)
\* of the call and observes request_duration_seconds and request_size_bytes
\* once each.
C3_CompleteCallCounted ==
    [][ (CallOf("OnRequest") /\ CompleteCtx(lastCall'.ctx))
        => /\ RequestCounted
           /\ Len(FullLabelOf(lastCall')) = 6
           /\ Total(requestTotal') = Total(requestTotal) + 1 ]_vars

C3_Witness ==
    /\ nCalls = 2
    /\ nPanicked = 0
    /\ lastCall.hook = "OnRequest"
    /\ lastCall.resp = {}
    /\ Total(requestTotal) = 2
    /\ Total(responseRCode) = 2
    /\ TotalObs(responseSize) = 1
    /\ Cardinality(DOMAIN requestTotal) = 2

OtherThanQUICUnchanged ==
    UNCHANGED <<requestTotal, requestDuration, requestSize, responseSize,
                responseRCode, errorTotal, panicTotal, invalidMsgTotal>>

\* C4: OnQUICAddressValidation(true) adds 1 to the pre-bound hit="1" counter
\* only, OnQUICAddressValidation(false) adds 1 to the pre-bound hit="0" counter
\* only; neither counter ever decreases, each equals the number of calls made
\* with its argument, and no other metric changes in such a call.
C4_QUICLookupsCounted ==
    /\ [](/\ DOMAIN quicAddrValidationCacheLookups = {"0", "1"}
          /\ quicAddrValidationCacheLookups["1"] = quicCalls[TRUE]
          /\ quicAddrValidationCacheLookups["0"] = quicCalls[FALSE])
    /\ [][ /\ \A k \in {"0", "1"} :
                quicAddrValidationCacheLookups'[k]
                    >= quicAddrValidationCacheLookups[k]
           /\ CallOf("OnQUICAddressValidation")
                => /\ OtherThanQUICUnchanged
                   /\ quicAddrValidationCacheLookups' =
                        IF lastCall'.hit
                        THEN [quicAddrValidationCacheLookups EXCEPT !["1"] = @ + 1]
                        ELSE [quicAddrValidationCacheLookups EXCEPT !["0"] = @ + 1]
         ]_vars

C4_Witness ==
    /\ lastCall.hook = "OnQUICAddressValidation"
    /\ quicCalls[TRUE] = 1
    /\ quicCalls[FALSE] = 1
    /\ quicAddrValidationCacheLookups["1"] = 1
    /\ quicAddrValidationCacheLookups["0"] = 1

RequestMetricsUnchanged ==
    UNCHANGED <<requestTotal, requestDuration, requestSize, responseSize,
                responseRCode, quicAddrValidationCacheLookups>>

\* C6: OnInvalidMsg, OnError and OnPanic, called with server info in the
\* context, each add exactly 1 to their own counter at (name, proto, addr) and
\* change no other counter or histogram; the metrics after OnError and OnPanic
\* are determined by the metrics before and the context alone, whatever the
\* error or panic value.
C6_ServerCounters ==
    [][ /\ (CallOf("OnInvalidMsg") /\ lastCall'.ctx.serverInfo # {})
            => /\ BumpedAt(invalidMsgTotal', invalidMsgTotal, SrvLabelOf(lastCall'))
               /\ RequestMetricsUnchanged
               /\ UNCHANGED <<errorTotal, panicTotal>>
        /\ (CallOf("OnError") /\ lastCall'.ctx.serverInfo # {})
            => /\ BumpedAt(errorTotal', errorTotal, SrvLabelOf(lastCall'))
               /\ RequestMetricsUnchanged
               /\ UNCHANGED <<invalidMsgTotal, panicTotal>>
        /\ (CallOf("OnPanic") /\ lastCall'.ctx.serverInfo # {})
            => /\ BumpedAt(panicTotal', panicTotal, SrvLabelOf(lastCall'))
               /\ RequestMetricsUnchanged
               /\ UNCHANGED <<invalidMsgTotal, errorTotal>> ]_vars

C6_Witness ==
    /\ nCalls = 2
    /\ lastCall.hook = "OnPanic"
    /\ lastCall.arg = "short read"
    /\ lastCall.ctx.serverInfo # {}
    /\ Get(panicTotal, SrvLabelOf(lastCall)) = 1
    /\ Get(errorTotal, SrvLabelOf(lastCall)) = 1
    /\ Total(invalidMsgTotal) = 0
    /\ Total(requestTotal) = 0

LacksRequired(c) ==
    \/ c.hook = "OnRequest" /\ ~CompleteCtx(c.ctx)
    \/ c.hook \in {"OnInvalidMsg", "OnError", "OnPanic"} /\ c.ctx.serverInfo = {}

AllUpdatesApplied ==
    /\ lastCall'.hook = "OnRequest"
        => /\ RequestCounted
           /\ Total(responseRCode') = Total(responseRCode) + 1
           /\ lastCall'.resp # {}
                => ObservedOnceAt(responseSize', responseSize, SrvLabelOf(lastCall'))
    /\ lastCall'.hook = "OnInvalidMsg"
        => BumpedAt(invalidMsgTotal', invalidMsgTotal, SrvLabelOf(lastCall'))
    /\ lastCall'.hook = "OnError"
        => BumpedAt(errorTotal', errorTotal, SrvLabelOf(lastCall'))
    /\ lastCall'.hook = "OnPanic"
        => BumpedAt(panicTotal', panicTotal, SrvLabelOf(lastCall'))
    /\ lastCall'.hook = "OnQUICAddressValidation"
        => Total(quicAddrValidationCacheLookups')
              = Total(quicAddrValidationCacheLookups) + 1

\* C7: a hook called with a context that lacks a field it requires (OnRequest:
\* server info, start time or request info; OnInvalidMsg, OnError, OnPanic:
\* server info) aborts, and a hook that returns normally has applied every one
\* of its metric updates.
C7_AbortsOnMissingContext ==
    [][ nCalls' = nCalls + 1
        => /\ LacksRequired(lastCall') => lastCall'.outcome = "panicked"
           /\ lastCall'.outcome = "returned" => AllUpdatesApplied ]_vars

C7_Witness ==
    /\ nCalls = 2
    /\ nPanicked = 2
    /\ lastCall.hook = "OnInvalidMsg"
    /\ lastCall.ctx.serverInfo = {}
    /\ lastCall.outcome = "panicked"
    /\ Total(invalidMsgTotal) = 0
    /\ Total(requestTotal) = 1

\* C8: for every response code, with or without a mnemonic, an OnRequest call
\* that reaches the response branch with a response of that code counts it
\* under a non-empty label and observes the response size; the label used for
\* a code is the same in every call.
C8_EveryCodeLabelled ==
    /\ [](\A code \in RCodes :
            /\ Cardinality(rcodeLabels[code]) <= 1
            /\ "" \notin rcodeLabels[code])
    /\ [][ (CallOf("OnRequest") /\ CompleteCtx(lastCall'.ctx) /\ lastCall'.resp # {})
           => /\ \E l \in rcodeLabels'[RcodeOf(lastCall')] :
                    /\ l # ""
                    /\ BumpedAt(responseRCode', responseRCode,
                                RCodeLabelOf(lastCall', l))
              /\ ObservedOnceAt(responseSize', responseSize, SrvLabelOf(lastCall'))
         ]_vars

C8_Witness ==
    /\ nCalls = 2
    /\ lastCall.hook = "OnRequest"
    /\ lastCall.outcome = "returned"
    /\ lastCall.resp = {[Rcode |-> 12]}
    /\ rcodeLabels[12] = {"12"}
    /\ Get(responseRCode, RCodeLabelOf(lastCall, "12")) = 2
    /\ ObsCount(responseSize, SrvLabelOf(lastCall)) = 2

\* C9: an OnRequest call that aborts because a required context field is
\* absent leaves request_total, request_duration_seconds, request_size_bytes,
\* response_size_bytes and response_rcode_total unchanged.
C9_AbortTouchesNothing ==
    [][ (CallOf("OnRequest") /\ lastCall'.outcome = "panicked")
        => UNCHANGED <<requestTotal, requestDuration, requestSize,
                       responseSize, responseRCode>> ]_vars

DroppedLabels(vec) == {l \in DOMAIN vec : l[4] = "DROPPED"}

\* C10: while no hook call has aborted, the total of request_total equals the
\* number of request_duration_seconds observations, the number of
\* request_size_bytes observations and the total of response_rcode_total, and
\* the number of response_size_bytes observations equals the total of
\* response_rcode_total over the labels other than "DROPPED".
C10_CountsInStep ==
    nPanicked = 0
    => /\ Total(requestTotal) = TotalObs(requestDuration)
       /\ Total(requestTotal) = TotalObs(requestSize)
       /\ Total(requestTotal) = Total(responseRCode)
       /\ TotalObs(responseSize) =
             SumOver(responseRCode,
                     DOMAIN responseRCode \ DroppedLabels(responseRCode))

C10_Witness ==
    /\ nCalls = 2
    /\ nPanicked = 0
    /\ Total(requestTotal) = 2
    /\ SumOver(responseRCode, DroppedLabels(responseRCode)) = 1
    /\ TotalObs(responseSize) = 1
    /\ \E code \in RCodes : rcodeLabels[code] # {}

-----------------------------------------------------------------------------
(* Properties of the hooks called concurrently *)

AllFinished == \A p \in Callers : pc[p] \in {"done", "panicked"}

\* the callers whose call reaches the update of each metric
PastServerInfo(hook) ==
    {p \in Callers : call[p].hook = hook /\ call[p].ctx.serverInfo # {}}

PastStartTime ==
    {p \in PastServerInfo("OnRequest") : call[p].ctx.startTime # {}}

PastRequestInfo == {p \in PastStartTime : call[p].ctx.requestInfo # {}}

Answered == {p \in PastRequestInfo : call[p].resp # {}}

CountPer(T, lab(_)) ==
    [l \in {lab(p) : p \in T} |-> Cardinality({p \in T : lab(p) = l})]

TallyPer(T, lab(_), val(_), bounds) ==
    [l \in {lab(p) : p \in T} |->
        LET P == {p \in T : lab(p) = l}
        IN  [count   |-> Cardinality(P),
             sum     |-> SumOver([p \in P |-> val(p)], P),
             buckets |-> [i \in 1..(Len(bounds) + 1) |->
                            Cardinality({p \in P : BucketOf(val(p), bounds) = i})]]]

SrvLabelOfCaller(p) == SrvLabelOf(call[p])

FullLabelOfCaller(p) == FullLabelOf(call[p])

RCodeLabelOfCaller(p) ==
    RCodeLabelOf(call[p], IF call[p].resp = {} THEN "DROPPED"
                          ELSE rCodeToString(RcodeOf(call[p])))

ElapsedOfCaller(p) == call[p].now - (CHOOSE t \in call[p].ctx.startTime : TRUE)

RequestSizeOfCaller(p) == (CHOOSE ri \in call[p].ctx.requestInfo : TRUE).RequestSize

ResponseSizeOfCaller(p) == (CHOOSE ri \in call[p].ctx.requestInfo : TRUE).ResponseSize

QUICCount(hit) ==
    Cardinality({p \in Callers : /\ call[p].hook = "OnQUICAddressValidation"
                                 /\ call[p].hit = hit})

\* C5: when the calls of all concurrent callers have finished, every counter
\* holds, per label vector, the number of calls that reached its increment with
\* that vector and every histogram holds one observation per call that reached
\* it: the final metrics are a function of the calls alone, not of the order
\* in which their steps were taken.
C5_NoLostUpdate ==
    AllFinished
    => /\ requestTotal = CountPer(PastStartTime, FullLabelOfCaller)
       /\ requestDuration =
            TallyPer(PastStartTime, SrvLabelOfCaller, ElapsedOfCaller, DefBuckets)
       /\ requestSize =
            TallyPer(PastRequestInfo, SrvLabelOfCaller, RequestSizeOfCaller,
                     SizeBuckets)
       /\ responseSize =
            TallyPer(Answered, SrvLabelOfCaller, ResponseSizeOfCaller, SizeBuckets)
       /\ responseRCode = CountPer(PastRequestInfo, RCodeLabelOfCaller)
       /\ invalidMsgTotal = CountPer(PastServerInfo("OnInvalidMsg"), SrvLabelOfCaller)
       /\ errorTotal = CountPer(PastServerInfo("OnError"), SrvLabelOfCaller)
       /\ panicTotal = CountPer(PastServerInfo("OnPanic"), SrvLabelOfCaller)
       /\ quicAddrValidationCacheLookups =
            ("1" :> QUICCount(TRUE)) @@ ("0" :> QUICCount(FALSE))

C5_Witness ==
    /\ AllFinished
    /\ \A p \in Callers : call[p].hook = "OnRequest" /\ pc[p] = "done"
    /\ \E l \in DOMAIN requestTotal : requestTotal[l] = NumCallers
    /\ \E l \in DOMAIN responseRCode : responseRCode[l] = NumCallers

====
